---- MODULE Spec2Model ----
(***************************************************************************)
(* Bounded-depth transaction tracer of crypto_hack_track: the Etherscan    *)
(* adapter (eth_track.py) and the XRPScan adapter (xrp_track.py).          *)
(* One trace is modelled step by step: the recursion of trace_transactions *)
(* is an explicit stack of frames, every HTTP response of get_transactions *)
(* is one step, every page handled by fetch_all_transactions is one step,  *)
(* every iteration of the for loop of trace_transactions is one step.      *)
(***************************************************************************)
EXTENDS Integers, Sequences, FiniteSets, TLC

VARIABLES
    adapter,      \* "eth" or "xrp": which of the two source files runs
    max_depth,    \* the max_depth argument of the top-level call
    ledger,       \* hashes of the Pool transactions the remote ledger holds
    traced,       \* the `traced` set (VisitedSet)
    node_levels,  \* the `node_levels` dict (LevelMap): account -> level
    stack,        \* call stack of trace_transactions frames, top is the last
    call,         \* the running get_transactions call and its counters
    outcome,      \* "running", "returned", "raised": top-level trace call
    error,        \* the exception that left the top-level call, or "none"
    result,       \* list returned by the top-level trace_transactions call
    fetched,      \* account -> number of fetch_all_transactions calls started
    pages,        \* account -> number of pages fetch_all_transactions received
    G,            \* the graph made by build_graph, NoGraph before
    pos,          \* the `pos` dict of visualize_graph, NoPos before
    earlier       \* lists returned by the earlier top-level calls

vars == <<adapter, max_depth, ledger, traced, node_levels, stack, call,
          outcome, error, result, fetched, pages, G, pos, earlier>>

----------------------------------------------------------------------------
(* Bounds of the model *)

\* max_depth ranges over 0..MaxDepth
MaxDepth == 1
\* a ledger holds at most MaxLedger transactions of the Pool
MaxLedger == 3
\* records per page (offset=10000 in eth_track.py, limit=200 in xrp_track.py,
\* scaled down so that histories of a few records span several pages)
PageSize == 2
\* the remote answers one get_transactions call with at most MaxRateLimit 429s
MaxRateLimit == 2
\* longest transaction list handed to build_graph on its own
MaxList == 3
\* top-level trace_transactions calls one process makes
MaxRuns == 2

----------------------------------------------------------------------------
(* Program constants and inputs *)

\* retries=5, default argument of get_transactions (xrp_track.py)
retries == 5
\* float(txn['value']) / 1e18: Wei to Ether, 18 decimal places
EthDecimals == 18
\* float(amount) / 1_000_000: drops to XRP, 6 decimal places
XrpDecimals == 6
\* the time window of __main__, as instants on an integer time line
start_datetime == 1
end_datetime == 2

Accounts == {"A", "B", "C", "D"}
\* initial_account of __main__
initial_account == "A"
\* an address string: an account or the empty string
Addresses == Accounts \cup {""}

Adapters == {"eth", "xrp"}

----------------------------------------------------------------------------
(* The remote ledger *)

\* A raw transaction record as the API returns it.  hasDest / hasAmount say
\* whether the record carries the key ('to' / 'Destination', 'value' /
\* 'Amount'); to = "" with hasDest is the empty destination string.
Tx(h, f, t, v, ti) ==
    [hash |-> h, from |-> f, to |-> t, value |-> v, time |-> ti,
     hasDest |-> TRUE, hasAmount |-> TRUE]

\* The transactions a ledger may hold, in the order the API lists them.
Pool ==
    << Tx(1, "A", "B", 5, 1),
       Tx(2, "A", "C", 3, 1),
       Tx(3, "B", "D", 1, 1),
       Tx(4, "A", "D", 2, 2),
       Tx(5, "B", "A", 1, 2),
       Tx(6, "A", "B", 2, 2),
       Tx(7, "A", "C", 0, 1),
       Tx(8, "A", "D", 4, 3),
       Tx(9, "D", "C", 1, 1),
       Tx(10, "A", "A", 1, 1),
       Tx(11, "C", "D", 2, 0),
       [Tx(12, "A", "", 1, 1) EXCEPT !.hasDest = FALSE],
       [Tx(13, "A", "B", 0, 1) EXCEPT !.hasAmount = FALSE],
       Tx(14, "C", "", 1, 2) >>

Hashes == 1..Len(Pool)

Ledgers == {L \in SUBSET Hashes : Cardinality(L) <= MaxLedger}

InLedger(L, t) == t.hash \in L

\* the account's history on ledger L, oldest listing first
History(L, account) ==
    SelectSeq(Pool, LAMBDA t : t.from = account /\ InLedger(L, t))

Min(a, b) == IF a <= b THEN a ELSE b

\* Etherscan txlist answer for (account, page): status "0" and an empty
\* result once the page lies beyond the history
EthResponse(L, account, page) ==
    LET h  == History(L, account)
        lo == (page - 1) * PageSize + 1
        hi == Min(page * PageSize, Len(h))
        r  == IF lo <= hi THEN SubSeq(h, lo, hi) ELSE << >>
    IN  [status |-> IF r = << >> THEN "0" ELSE "1", result |-> r]

\* XRPScan answer for (account, marker): marker 0 is None; the answer carries
\* a 'marker' exactly when records remain after this page
XrpResponse(L, account, marker) ==
    LET h  == History(L, account)
        hi == Min(marker + PageSize, Len(h))
        r  == IF marker + 1 <= hi THEN SubSeq(h, marker + 1, hi) ELSE << >>
    IN  [transactions |-> r, hasMarker |-> hi < Len(h), marker |-> hi]

----------------------------------------------------------------------------
(* Unit conversion and the transaction filter *)

\* float(txn['value']) / 1e18 and float(amount) / 1_000_000 as exact decimals:
\* units * 10^(-decimals)
EthAmount(t) == [units |-> t.value, decimals |-> EthDecimals]
XrpAmount(t) == [units |-> t.value, decimals |-> XrpDecimals]

\* amount > 0.0000
IsPositive(amount) == amount.units > 0

\* start_datetime <= txn_date <= end_datetime
InWindow(t) == start_datetime <= t.time /\ t.time <= end_datetime

\* eth fetch_all_transactions: the test before transactions.append(txn)
EthKeep(t) == InWindow(t) /\ IsPositive(EthAmount(t))

\* xrp fetch_all_transactions: the test before transactions.append(txn)
XrpKeep(t) == InWindow(t)

\* eth fetch_all_transactions reads txn['value'] of every record of the page
EthPageKeyError(records) ==
    \E i \in 1..Len(records) : ~records[i].hasAmount

----------------------------------------------------------------------------
(* get_transactions *)

IdleCall ==
    [state |-> "idle", attempt |-> 0, n429 |-> 0, n504 |-> 0,
     requests |-> 0, sleeps |-> 0, last |-> 0]

\* entry of get_transactions: attempt = 0, nothing requested yet
NewCall == [IdleCall EXCEPT !.state = "requesting"]

\* the loop test letting one more attempt through
LoopRunsOnceMore(c) == IF adapter = "xrp" THEN c.attempt <= retries ELSE TRUE

\* while attempt < retries (xrp); while True (eth)
LoopRuns(c) == IF adapter = "xrp" THEN c.attempt < retries ELSE TRUE

\* a 429 that also uses up an attempt
OnRateLimitCounts(c) ==
    [c EXCEPT !.n429 = @ + 1, !.requests = @ + 1, !.sleeps = @ + 1,
              !.attempt = @ + 1, !.last = 429]

\* status 429: print, time.sleep(60), loop again
OnRateLimit(c) ==
    [c EXCEPT !.n429 = @ + 1, !.requests = @ + 1, !.sleeps = @ + 1,
              !.last = 429]

\* a 504 handler without `attempt += 1`
OnTransientNoCount(c) ==
    [c EXCEPT !.n504 = @ + 1, !.requests = @ + 1, !.sleeps = @ + 1,
              !.last = 504]

\* xrp, status 504: time.sleep(30); attempt += 1
OnTransient(c) ==
    [c EXCEPT !.n504 = @ + 1, !.requests = @ + 1, !.sleeps = @ + 1,
              !.attempt = @ + 1, !.last = 504]

\* a 2xx answer: raise_for_status passes, return response.json()
OnSuccess(c) ==
    [c EXCEPT !.requests = @ + 1, !.last = 200, !.state = "returned"]

\* an answer whose raise_for_status exception leaves get_transactions
OnFatal(c, status) ==
    [c EXCEPT !.requests = @ + 1, !.last = status, !.state = "raised",
              !.n504 = IF status = 504 THEN @ + 1 ELSE @]

\* requests one call may issue before the model stops answering
MaxRequests == MaxRateLimit + retries + 1

----------------------------------------------------------------------------
(* trace_transactions *)

Top == stack[Len(stack)]

Frame(account, depth) ==
    [account |-> account, depth |-> depth, phase |-> "entry", page |-> 0,
     transactions |-> << >>, i |-> 1, all |-> << >>]

\* the guard with the bound one level early
SkipAtMaxDepth(account, depth) == depth >= max_depth \/ account \in traced

\* the guard with the bound one level late
SkipOneDeeper(account, depth) == depth > max_depth + 1 \/ account \in traced

\* if depth > max_depth or account in traced: return []
Skip(account, depth) == depth > max_depth \/ account \in traced

\* an expansion that forgets to record the account
MarkTracedForgets(account) == traced

\* traced.add(account)
MarkTraced(account) == traced \cup {account}

\* an assignment that is lost: the dict stays as it was
SetLevelLost(levels, account, level) == levels

\* dict[account] = level
SetLevel(levels, account, level) ==
    [a \in DOMAIN levels \cup {account} |->
        IF a = account THEN level ELSE levels[a]]

\* a level assignment that records the depth of the expanding account
ChildLevelSame(depth) == depth

\* the level a followed destination gets: depth + 1
ChildLevel(depth) == depth + 1

\* the test of the loop body without its `not in traced` part
FollowTraced(t) ==
    IF adapter = "eth"
    THEN t.to # "" /\ IsPositive(EthAmount(t))
    ELSE t.hasDest /\ t.hasAmount

\* eth: if destination and destination not in traced and amount > 0.0000
\* xrp: if 'Destination' in txn and 'Amount' in txn, then
\*      if destination not in traced
Follow(t) ==
    IF adapter = "eth"
    THEN t.to # "" /\ t.to \notin traced /\ IsPositive(EthAmount(t))
    ELSE t.hasDest /\ t.hasAmount /\ t.to \notin traced

\* eth trace_transactions reads txn['to'] and txn['value'] unguarded
VisitKeyError(t) == adapter = "eth" /\ (~t.hasDest \/ ~t.hasAmount)

NoGraph == [built |-> FALSE]

\* the top frame returns the list `lst` to its caller
ReturnList(lst) ==
    IF Len(stack) = 1
    THEN /\ stack' = << >>
         /\ outcome' = "returned"
         /\ result' = lst
    ELSE /\ stack' = [SubSeq(stack, 1, Len(stack) - 1) EXCEPT
                        ![Len(stack) - 1].all = @ \o lst,
                        ![Len(stack) - 1].i = @ + 1]
         /\ UNCHANGED <<outcome, result>>

\* an exception caught around the recursive call: only the frame of the
\* failing account is given up, its caller goes on with the next record
RaiseInBranch(e) ==
    /\ error' = e
    /\ ReturnList(<< >>)

\* an exception leaves the top-level call: every frame is unwound
Raise(e) ==
    /\ outcome' = "raised"
    /\ error' = e
    /\ stack' = << >>

Running == outcome = "running" /\ stack # << >>

\* trace_transactions entry: the guard, traced.add, the call of
\* fetch_all_transactions up to its first get_transactions
Enter ==
    /\ Running
    /\ Top.phase = "entry"
    /\ IF Skip(Top.account, Top.depth)
       THEN /\ ReturnList(<< >>)
            /\ UNCHANGED <<traced, fetched, call>>
       ELSE /\ traced' = MarkTraced(Top.account)
            /\ fetched' = [fetched EXCEPT ![Top.account] = @ + 1]
            /\ stack' = [stack EXCEPT ![Len(stack)].phase = "fetch",
                            ![Len(stack)].page =
                                IF adapter = "eth" THEN 1 ELSE 0]
            /\ call' = NewCall
            /\ UNCHANGED <<outcome, result>>
    /\ UNCHANGED <<earlier, pos, adapter, max_depth, ledger, node_levels, error, pages, G>>

Requesting ==
    /\ Running
    /\ Top.phase = "fetch"
    /\ call.state = "requesting"
    /\ LoopRuns(call)
    /\ call.requests < MaxRequests

\* the remote answers 429
RateLimited ==
    /\ Requesting
    /\ call.n429 < MaxRateLimit
    /\ call' = OnRateLimit(call)
    /\ UNCHANGED <<earlier, pos, adapter, max_depth, ledger, traced, node_levels, stack,
                   outcome, error, result, fetched, pages, G>>

\* the remote answers 504: xrp backs off and retries, eth lets the
\* HTTPError of raise_for_status escape
Transient ==
    /\ Requesting
    /\ IF adapter = "xrp"
       THEN /\ call' = OnTransient(call)
            /\ UNCHANGED <<stack, outcome, error>>
       ELSE /\ call' = OnFatal(call, 504)
            /\ Raise("HTTPError")
    /\ UNCHANGED <<earlier, pos, adapter, max_depth, ledger, traced, node_levels,
                   result, fetched, pages, G>>

\* the remote answers another error status: raise_for_status raises and
\* nothing catches it (xrp re-raises it)
HttpFailure ==
    /\ Requesting
    /\ call' = OnFatal(call, 500)
    /\ Raise("HTTPError")
    /\ UNCHANGED <<earlier, pos, adapter, max_depth, ledger, traced, node_levels,
                   result, fetched, pages, G>>

\* xrp: the while loop ends, raise Exception("Max retries exceeded")
MaxRetriesExceeded ==
    /\ Running
    /\ Top.phase = "fetch"
    /\ call.state = "requesting"
    /\ ~LoopRuns(call)
    /\ call' = [call EXCEPT !.state = "raised"]
    /\ Raise("MaxRetries")
    /\ UNCHANGED <<earlier, pos, adapter, max_depth, ledger, traced, node_levels,
                   result, fetched, pages, G>>

\* the remote answers 200 and get_transactions returns the page
Success ==
    /\ Requesting
    /\ call' = OnSuccess(call)
    /\ UNCHANGED <<earlier, pos, adapter, max_depth, ledger, traced, node_levels, stack,
                   outcome, error, result, fetched, pages, G>>

\* page += 1
NextPage(page) == page + 1

\* eth: the two break tests of the while loop, after the page was filtered
EthLastPage(data) == data.status = "0" \/ Len(data.result) < PageSize

\* a continuation test that looks at the marker only
XrpContinueAlways(data, depth) == data.hasMarker

\* xrp: if 'marker' in data and depth < max_depth
XrpContinue(data, depth) == data.hasMarker /\ depth < max_depth

\* fetch_all_transactions handles the page get_transactions returned: filter
\* its records, then either ask for the next page or return to
\* trace_transactions, which starts its for loop
HandlePage ==
    /\ Running
    /\ Top.phase = "fetch"
    /\ call.state = "returned"
    /\ pages' = [pages EXCEPT ![Top.account] = @ + 1]
    /\ IF adapter = "eth"
       THEN LET data == EthResponse(ledger, Top.account, Top.page)
                kept == IF data.status = "0" THEN << >>
                        ELSE SelectSeq(data.result, EthKeep)
            IN  IF data.status # "0" /\ EthPageKeyError(data.result)
                THEN /\ Raise("KeyError")
                     /\ call' = IdleCall
                ELSE IF EthLastPage(data)
                THEN /\ stack' = [stack EXCEPT
                            ![Len(stack)].transactions = @ \o kept,
                            ![Len(stack)].phase = "loop"]
                     /\ call' = IdleCall
                     /\ UNCHANGED <<outcome, error>>
                ELSE /\ stack' = [stack EXCEPT
                            ![Len(stack)].transactions = @ \o kept,
                            ![Len(stack)].page = NextPage(@)]
                     /\ call' = NewCall
                     /\ UNCHANGED <<outcome, error>>
       ELSE LET data == XrpResponse(ledger, Top.account, Top.page)
                kept == SelectSeq(data.transactions, XrpKeep)
            IN  IF XrpContinue(data, Top.depth)
                THEN /\ stack' = [stack EXCEPT
                            ![Len(stack)].transactions = @ \o kept,
                            ![Len(stack)].page = data.marker]
                     /\ call' = NewCall
                     /\ UNCHANGED <<outcome, error>>
                ELSE /\ stack' = [stack EXCEPT
                            ![Len(stack)].transactions = @ \o kept,
                            ![Len(stack)].phase = "loop"]
                     /\ call' = IdleCall
                     /\ UNCHANGED <<outcome, error>>
    /\ UNCHANGED <<earlier, pos, adapter, max_depth, ledger, traced, node_levels,
                   result, fetched, G>>

\* one iteration of `for txn in transactions`: the record is skipped, or
\* appended, levelled and trace_transactions called on its destination
Visit ==
    /\ Running
    /\ Top.phase = "loop"
    /\ Top.i <= Len(Top.transactions)
    /\ LET t == Top.transactions[Top.i]
       IN  IF VisitKeyError(t)
           THEN /\ Raise("KeyError")
                /\ UNCHANGED node_levels
           ELSE IF Follow(t)
           THEN /\ node_levels' = SetLevel(node_levels, t.to, ChildLevel(Top.depth))
                /\ stack' = Append(
                       [stack EXCEPT ![Len(stack)].all = Append(@, t)],
                       Frame(t.to, Top.depth + 1))
                /\ UNCHANGED <<outcome, error>>
           ELSE /\ stack' = [stack EXCEPT ![Len(stack)].i = @ + 1]
                /\ UNCHANGED <<node_levels, outcome, error>>
    /\ UNCHANGED <<earlier, pos, adapter, max_depth, ledger, traced, call, result,
                   fetched, pages, G>>

\* the for loop is over: return all_transactions
Return ==
    /\ Running
    /\ Top.phase = "loop"
    /\ Top.i > Len(Top.transactions)
    /\ ReturnList(Top.all)
    /\ UNCHANGED <<earlier, pos, adapter, max_depth, ledger, traced, node_levels, call,
                   error, fetched, pages, G>>

----------------------------------------------------------------------------
(* build_graph *)

EmptyGraph ==
    [built |-> TRUE, raised |-> FALSE, nodes |-> {},
     weight |-> << >>, subset_key |-> << >>]

\* an edge insertion that adds the amount to the weight already there
AddEdgeSums(g, source, destination, amount) ==
    [g EXCEPT
        !.nodes = @ \cup {source, destination},
        !.weight = [e \in DOMAIN @ \cup {<<source, destination>>} |->
                       IF e # <<source, destination>> THEN @[e]
                       ELSE IF e \in DOMAIN @
                            THEN [amount EXCEPT !.units = @ + g.weight[e].units]
                            ELSE amount]]

\* G.add_edge(source, destination, weight=amount): both nodes exist
\* afterwards, an existing edge keeps its place and gets the new weight
AddEdge(g, source, destination, amount) ==
    [g EXCEPT
        !.nodes = @ \cup {source, destination},
        !.weight = [e \in DOMAIN @ \cup {<<source, destination>>} |->
                       IF e = <<source, destination>> THEN amount ELSE @[e]]]

\* G.nodes[node]['subset_key'] = level
SetSubsetKey(g, node, level) ==
    [g EXCEPT !.subset_key = SetLevel(@, node, level)]

\* a defaulting without the membership test: the source's level is reset
DefaultSourceAlways(levels, source) == SetLevel(levels, source, 0)

\* if source not in node_levels: node_levels[source] = 0
DefaultSource(levels, source) ==
    IF source \in DOMAIN levels THEN levels ELSE SetLevel(levels, source, 0)

\* the record makes an edge: always in eth, in xrp only
\* if 'Destination' in txn and 'Amount' in txn
MakesEdge(t) == adapter = "eth" \/ (t.hasDest /\ t.hasAmount)

\* the converted amount build_graph puts on the edge
Weight(t) == IF adapter = "eth" THEN EthAmount(t) ELSE XrpAmount(t)

\* body of the for loop of build_graph on record t; st holds the graph
\* and the node_levels dict, st.g.raised once a KeyError left the loop
BuildOne(st, t) ==
    IF ~MakesEdge(t) THEN st
    ELSE IF ~t.hasDest \/ ~t.hasAmount
    THEN [st EXCEPT !.g.raised = TRUE]
    ELSE LET g1 == AddEdge(st.g, t.from, t.to, Weight(t))
             l1 == DefaultSource(st.levels, t.from)
             g2 == SetSubsetKey(g1, t.from, l1[t.from])
         IN  IF t.to \in DOMAIN l1
             THEN [g |-> SetSubsetKey(g2, t.to, l1[t.to]), levels |-> l1]
             ELSE [g |-> [g2 EXCEPT !.raised = TRUE], levels |-> l1]

RECURSIVE BuildFrom(_, _, _)
BuildFrom(transactions, i, st) ==
    IF i > Len(transactions) \/ st.g.raised THEN st
    ELSE BuildFrom(transactions, i + 1, BuildOne(st, transactions[i]))

\* build_graph(transactions, node_levels)
build_graph(transactions, levels) ==
    BuildFrom(transactions, 1, [g |-> EmptyGraph, levels |-> levels])

\* __main__: G = build_graph(transactions, node_levels) once the trace
\* returned its list
BuildGraph ==
    /\ outcome = "returned"
    /\ ~G.built
    /\ LET st == build_graph(result, node_levels)
       IN  /\ G' = st.g
           /\ node_levels' = st.levels
    /\ UNCHANGED <<earlier, pos, adapter, max_depth, ledger, traced, stack, call, outcome,
                   error, result, fetched, pages>>

----------------------------------------------------------------------------
(* visualize_graph: the placement of the nodes (the jitter of +-0.05 and
   the drawing are left out) *)

NoPos == [placed |-> FALSE]

\* place of a key in the node_levels dict, which keeps insertion order:
\* the origin __main__ put in, the destinations in the order
\* trace_transactions first levelled them, the sources build_graph added
KeyOrder(txns, a) ==
    LET asDest == {i \in 1..Len(txns) : txns[i].to = a}
        asSrc  == {i \in 1..Len(txns) : txns[i].from = a}
        first(S) == CHOOSE i \in S : \A j \in S : i <= j
    IN  IF a = initial_account THEN 0
        ELSE IF asDest # {} THEN first(asDest)
        ELSE IF asSrc # {} THEN Len(txns) + first(asSrc)
        ELSE 2 * Len(txns) + 1

\* level_nodes[level]
LevelNodes(levels, level) == {a \in DOMAIN levels : levels[a] = level}

RECURSIVE SumUnits(_, _)
SumUnits(g, edges) ==
    IF edges = {} THEN 0
    ELSE LET e == CHOOSE x \in edges : TRUE
         IN  g.weight[e].units + SumUnits(g, edges \ {e})

\* sum([G.edges[edge]['weight'] for edge in G.in_edges(node)]), in units
Inbound(g, node) == SumUnits(g, {e \in DOMAIN g.weight : e[2] = node})

\* index of node after nodes.sort(key=inbound, reverse=True): the sort is
\* stable, equal sums keep the order of the dict
Rank(g, txns, nodes, node) ==
    Cardinality({m \in nodes :
        \/ Inbound(g, m) > Inbound(g, node)
        \/ /\ Inbound(g, m) = Inbound(g, node)
           /\ KeyOrder(txns, m) < KeyOrder(txns, node)})

\* nodes[0]
FirstNode(txns, nodes) ==
    CHOOSE a \in nodes : \A b \in nodes : KeyOrder(txns, a) <= KeyOrder(txns, b)

\* the nodes of one level the placement loop gives a position: nodes[0]
\* alone on level 0, every node on the other levels
PlacedOfLevel(txns, nodes, level) ==
    IF level = 0 THEN {FirstNode(txns, nodes)} ELSE nodes

\* pos after the loop over level_nodes
RankedPos(g, levels, txns) ==
    LET placed == UNION {PlacedOfLevel(txns, LevelNodes(levels, l), l) :
                            l \in {levels[a] : a \in DOMAIN levels}}
    IN  [a \in placed |->
            IF levels[a] = 0
            THEN [how |-> "anchor", x |-> 0, y |-> 0]
            ELSE [how |-> "rank", x |-> levels[a],
                  y |-> 0 - Rank(g, txns, LevelNodes(levels, levels[a]), a)]]

\* max_depth = max(node_levels.values())
MaxLevel(levels) ==
    CHOOSE l \in {levels[a] : a \in DOMAIN levels} :
        \A a \in DOMAIN levels : levels[a] <= l

\* eth only: remaining_nodes = set(G.nodes) - set(pos.keys())
Remaining(g, ranked) ==
    IF adapter = "eth" THEN g.nodes \ DOMAIN ranked ELSE {}

\* (random.uniform(0, max_depth + 1),
\*  random.uniform(-len(G.nodes) / 2, len(G.nodes) / 2)), on the integer grid
RandomSpots(g, levels) ==
    [how : {"random"}, x : 0..(MaxLevel(levels) + 1),
     y : (0 - (Cardinality(g.nodes) \div 2))..(Cardinality(g.nodes) \div 2)]

\* __main__: visualize_graph(G, node_levels, ...) up to plt.figure; max()
\* of an empty node_levels raises ValueError
Visualize ==
    /\ outcome = "returned"
    /\ error = "none"
    /\ G.built /\ ~G.raised
    /\ ~pos.placed
    /\ IF DOMAIN node_levels = {}
       THEN /\ error' = "ValueError"
            /\ pos' = pos
       ELSE /\ LET ranked == RankedPos(G, node_levels, result)
                   rest == Remaining(G, ranked)
               IN  \E spots \in [rest -> RandomSpots(G, node_levels)] :
                      pos' = [placed |-> TRUE,
                              at |-> [a \in DOMAIN ranked \cup rest |->
                                        IF a \in rest THEN spots[a]
                                        ELSE ranked[a]]]
            /\ error' = error
    /\ UNCHANGED <<earlier, adapter, max_depth, ledger, traced, node_levels,
                   stack, call, outcome, result, fetched, pages, G>>

----------------------------------------------------------------------------

\* __main__: node_levels = {initial_account: 0}, the default traced set is
\* still empty, trace_transactions(initial_account, ..., depth=0)
Init ==
    /\ adapter \in Adapters
    /\ max_depth \in 0..MaxDepth
    /\ ledger \in Ledgers
    /\ traced = {}
    /\ node_levels = [a \in {initial_account} |-> 0]
    /\ stack = << Frame(initial_account, 0) >>
    /\ call = IdleCall
    /\ outcome = "running"
    /\ error = "none"
    /\ result = << >>
    /\ fetched = [a \in Addresses |-> 0]
    /\ pages = [a \in Addresses |-> 0]
    /\ G = NoGraph
    /\ pos = NoPos
    /\ earlier = << >>

Next ==
    \/ Enter
    \/ RateLimited
    \/ Transient
    \/ HttpFailure
    \/ MaxRetriesExceeded
    \/ Success
    \/ HandlePage
    \/ Visit
    \/ Return
    \/ BuildGraph
    \/ Visualize

Spec == Init /\ [][Next]_vars

----------------------------------------------------------------------------
(* build_graph on its own: any list of raw records, with the level maps a
   caller can hand over (every address levelled, only the origin, none) *)

RECURSIVE ListsUpTo(_)
ListsUpTo(n) ==
    IF n = 0 THEN {<< >>}
    ELSE LET shorter == ListsUpTo(n - 1)
         IN  shorter \cup
             {Append(l, Pool[h]) : l \in {s \in shorter : Len(s) = n - 1},
                                   h \in Hashes}

LevelMaps ==
    { [a \in Addresses |-> IF a = initial_account THEN 0 ELSE 1],
      [a \in {initial_account} |-> 0],
      << >> }

GraphInit ==
    /\ adapter \in Adapters
    /\ max_depth = 0
    /\ ledger = {}
    /\ traced = {}
    /\ node_levels \in LevelMaps
    /\ stack = << >>
    /\ call = IdleCall
    /\ outcome = "returned"
    /\ error = "none"
    /\ result \in ListsUpTo(MaxList)
    /\ fetched = [a \in Addresses |-> 0]
    /\ pages = [a \in Addresses |-> 0]
    /\ G = NoGraph
    /\ pos = NoPos
    /\ earlier = << >>

GraphNext == BuildGraph \/ Visualize

GraphSpec == GraphInit /\ [][GraphNext]_vars

\* the interpreter always takes its next step and the remote always answers
LiveSpec == Spec /\ WF_vars(Next)

----------------------------------------------------------------------------
(* A process that traces the same origin again *)

\* the caller repeats the block of __main__: a new node_levels dict, and
\* trace_transactions called again without a `traced` argument, so the call
\* gets the set object the def statement made for the default
Retrace ==
    /\ outcome = "returned"
    /\ pos.placed
    /\ Len(earlier) + 1 < MaxRuns
    /\ earlier' = Append(earlier, result)
    /\ node_levels' = [a \in {initial_account} |-> 0]
    /\ stack' = << Frame(initial_account, 0) >>
    /\ call' = IdleCall
    /\ outcome' = "running"
    /\ result' = << >>
    /\ fetched' = [a \in Addresses |-> 0]
    /\ pages' = [a \in Addresses |-> 0]
    /\ G' = NoGraph
    /\ pos' = NoPos
    /\ UNCHANGED <<adapter, max_depth, ledger, traced, error>>

RerunNext == Next \/ Retrace

RerunSpec == Init /\ [][RerunNext]_vars

----------------------------------------------------------------------------
(* Vocabulary of the properties *)

Range(seq) == {seq[i] : i \in 1..Len(seq)}

LedgerTxns == {Pool[h] : h \in ledger}

\* records of the ledger inside the window with a positive amount
PositiveInWindow ==
    {t \in LedgerTxns : t.hasAmount /\ t.value > 0 /\ InWindow(t)}

\* transfers of the ledger the running adapter can follow: kept by its
\* fetch filter and carrying what its loop body asks for
Followable ==
    {t \in LedgerTxns :
        /\ t.hasDest /\ t.hasAmount /\ InWindow(t)
        /\ adapter = "eth" => (t.to # "" /\ t.value > 0)}

\* addresses within k hops of the origin over the followable transfers
RECURSIVE Within(_)
Within(k) ==
    IF k = 0 THEN {initial_account}
    ELSE LET near == Within(k - 1)
         IN  near \cup {t.to : t \in {u \in Followable : u.from \in near}}

\* every address some chain of followable transfers reaches
Reachable == Within(Cardinality(Addresses))

\* every record some frame or the final result has accumulated
Accumulated ==
    Range(result) \cup UNION {Range(stack[i].all) : i \in 1..Len(stack)}

Pairs(txns) == {<<t.from, t.to>> : t \in txns}

\* the for loop of the top frame is about to handle a record
AtRecord ==
    /\ Running
    /\ Top.phase = "loop"
    /\ Top.i <= Len(Top.transactions)

Current == Top.transactions[Top.i]

----------------------------------------------------------------------------
(* C1: the end-to-end scenario *)

\* origin A, max_depth = 1, in-window positive transfers A->B, A->C, B->D
Scenario ==
    /\ max_depth = 1
    /\ PositiveInWindow = {Pool[1], Pool[2], Pool[3]}

\* C1 as stated: in the scenario B is never fetched, B->D is never
\* accumulated and the final level map is exactly A=0, B=1, C=1.
C1_AsStated ==
    (Scenario /\ outcome = "returned") =>
        /\ fetched["B"] = 0
        /\ Pool[3] \notin Range(result)
        /\ node_levels = [a \in {"A", "B", "C"} |->
                              IF a = "A" THEN 0 ELSE 1]

\* C1 amended: in the scenario B, reached at depth 1 = max_depth, is
\* expanded once, B->D is accumulated, D (depth 2) is not expanded, and the
\* final level map is A=0, B=1, C=1, D=2; the edges are A->B, B->D, A->C.
C1_Scenario ==
    (Scenario /\ outcome = "returned") =>
        /\ fetched["A"] = 1 /\ fetched["B"] = 1 /\ fetched["C"] = 1
        /\ fetched["D"] = 0
        /\ Pool[3] \in Range(result)
        /\ Pairs(Range(result)) = {<<"A", "B">>, <<"B", "D">>, <<"A", "C">>}
        /\ node_levels = [a \in Accounts |->
                              CASE a = "A" -> 0
                                [] a = "D" -> 2
                                [] OTHER -> 1]

C1_Witness == Scenario /\ outcome = "returned" /\ G.built

----------------------------------------------------------------------------
(* C2: the depth bound *)

\* C2 as stated: no address farther than max_depth hops from the origin
\* has a level.
C2_AsStated ==
    \A a \in DOMAIN node_levels : a \in Within(max_depth)

\* C2 amended: every address with a level lies within max_depth + 1 hops of
\* the origin; addresses farther than max_depth + 1 never get a level.
C2_DepthBound ==
    \A a \in DOMAIN node_levels : a \in Within(max_depth + 1)

\* the trace returned on a ledger that has an address beyond the bound
C2_Witness ==
    /\ outcome = "returned"
    /\ \E a \in Reachable \ Within(max_depth + 1) : a \notin DOMAIN node_levels
    /\ \E a \in DOMAIN node_levels : a \notin Within(max_depth)

----------------------------------------------------------------------------
(* C3: stability of levels *)

----------------------------------------------------------------------------
(* C4: no re-expansion *)

\* C4: fetch_all_transactions is started at most once per address, and only
\* from a frame whose depth is at most max_depth.
C4_NoReexpansion ==
    /\ [](\A a \in Addresses : fetched[a] <= 1)
    /\ [][\A a \in Addresses :
            fetched'[a] # fetched[a] =>
                /\ fetched[a] = 0 /\ fetched'[a] = 1
                /\ a \notin traced
                /\ Top.account = a /\ Top.depth <= max_depth]_vars

\* a cycle back to the origin was walked and an address beyond max_depth
\* was reached, neither fetched again
C4_Witness ==
    /\ outcome = "returned"
    /\ Pool[5] \in LedgerTxns /\ Pool[1] \in Range(result)
    /\ fetched["A"] = 1 /\ fetched["B"] = 1
    /\ \E a \in DOMAIN node_levels :
            node_levels[a] > max_depth /\ fetched[a] = 0

----------------------------------------------------------------------------
(* C5: a kept record whose destination is already in traced *)

RevisitsTraced ==
    /\ AtRecord
    /\ Current.hasDest /\ Current.hasAmount
    /\ Current.to \in traced

\* C5 as stated: such a record is appended to the accumulated list and its
\* destination is not expanded again.
C5_AsStated ==
    [][RevisitsTraced =>
            /\ Len(stack') >= Len(stack)
            /\ stack'[Len(stack)].all = Append(Top.all, Current)
            /\ fetched' = fetched]_vars

\* C5 amended: such a record is not appended (it gives no edge), and its
\* destination is neither levelled again nor expanded again.
C5_RevisitDropped ==
    [][RevisitsTraced =>
            /\ stack' = [stack EXCEPT ![Len(stack)].i = @ + 1]
            /\ node_levels' = node_levels
            /\ traced' = traced
            /\ fetched' = fetched]_vars

\* the trace returned after it met B->A with A expanded: no edge B->A
C5_Witness ==
    /\ outcome = "returned"
    /\ Pool[5] \in LedgerTxns
    /\ fetched["B"] = 1
    /\ Pool[5] \notin Range(result)

----------------------------------------------------------------------------
(* C6: the filter *)

\* C6 as stated: under both adapters every accumulated record lies inside
\* the window and has a strictly positive amount.
C6_AsStated ==
    \A t \in Accumulated : InWindow(t) /\ t.hasAmount /\ t.value > 0

----------------------------------------------------------------------------
(* C7: edge weights of build_graph *)

\* index of the last record of lst that makes the edge e
LastIndex(lst, e) ==
    CHOOSE i \in 1..Len(lst) :
        /\ MakesEdge(lst[i]) /\ <<lst[i].from, lst[i].to>> = e
        /\ \A j \in (i + 1)..Len(lst) :
                ~(MakesEdge(lst[j]) /\ <<lst[j].from, lst[j].to>> = e)

\* C7: when build_graph returns, the graph has one edge per (source,
\* destination) pair of the list and its weight is the converted amount of
\* the last record of that pair, whatever the earlier ones carried.
C7_EdgeWeight ==
    (G.built /\ ~G.raised) =>
        /\ DOMAIN G.weight = Pairs({t \in Range(result) : MakesEdge(t)})
        /\ \A e \in DOMAIN G.weight :
                G.weight[e] = Weight(result[LastIndex(result, e)])

\* a graph built from a list with two positive amounts on one pair
C7_Witness ==
    /\ G.built /\ ~G.raised
    /\ \E i, j \in 1..Len(result) :
            /\ i < j
            /\ result[i].from = result[j].from /\ result[i].to = result[j].to
            /\ result[i].value > 0 /\ result[j].value > 0
            /\ result[i].value # result[j].value

----------------------------------------------------------------------------
(* C8: the retry cap of the xrp get_transactions *)

\* C8: attempt counts the 504 answers only; the call raises "Max retries
\* exceeded" exactly when `retries` of them have come, each followed by a
\* sleep, and 429 answers in between neither count nor reset the count.
C8_RetryCap ==
    /\ [](adapter = "xrp" =>
            /\ call.attempt = call.n504
            /\ call.n504 <= retries
            /\ call.sleeps = call.n504 + call.n429
            /\ error = "MaxRetries" =>
                    /\ call.n504 = retries
                    /\ call.requests = retries + call.n429)
    /\ [][(adapter = "xrp" /\ call.state = "requesting"
                /\ call.n504 = retries) => error' = "MaxRetries"]_vars

\* the cap was hit with rate limits among the 504 answers
C8_Witness ==
    /\ error = "MaxRetries"
    /\ call.n429 = MaxRateLimit
    /\ call.last = 504

----------------------------------------------------------------------------
(* C9: rate-limit retries *)

\* C9: a call answered by n 429s and then a success returns after n sleeps
\* and n + 1 requests, and no exception leaves a call whose last answer
\* was a 429.
C9_RateLimit ==
    /\ (call.state = "returned" /\ call.n504 = 0) =>
            /\ call.sleeps = call.n429
            /\ call.requests = call.n429 + 1
    /\ (call.last = 429 /\ call.n504 = 0) =>
            (call.state = "requesting" /\ outcome = "running")
    /\ outcome = "raised" => call.last # 429

\* a call returned after as many rate limits as the remote may send
C9_Witness ==
    /\ call.state = "returned"
    /\ call.n429 = MaxRateLimit
    /\ call.n504 = 0
    /\ call.sleeps = MaxRateLimit

----------------------------------------------------------------------------
(* C10: termination *)

\* C10: every trace ends: the top-level call returns its list unless a
\* fatal error leaves it.
C10_Termination == <>(outcome = "returned" \/ error # "none")

\* a trace returned over a ledger with a cycle and a self-transfer
C10_Witness ==
    /\ outcome = "returned"
    /\ {1, 5, 10} \subseteq ledger
    /\ max_depth >= 1
    /\ fetched["B"] = 1

----------------------------------------------------------------------------
(* Fatal errors, the state of a crawl, malformed records *)

FatalErrors == {"HTTPError", "MaxRetries"}

\* after a fatal error nothing is requested, fetched or expanded
NothingAfterFatal ==
    error \in FatalErrors =>
        /\ call' = call
        /\ fetched' = fetched
        /\ pages' = pages
        /\ traced' = traced

\* the step that sets a fatal error is the step that leaves the top call
FatalLeavesTopCall ==
    (error = "none" /\ error' \in FatalErrors) => outcome' = "raised"

\* C11: once a page fetch has raised a fatal error (retry cap exhausted or
\* a non-retryable HTTP failure) the top-level call has raised with every
\* frame unwound, no list is returned, no graph is built or placed, and
\* nothing is requested, fetched or expanded afterwards
C11_FatalAborts ==
    /\ [](error \in FatalErrors =>
            (/\ outcome = "raised"
             /\ stack = << >>
             /\ result = << >>
             /\ ~G.built
             /\ ~pos.placed))
    /\ [][NothingAfterFatal]_vars
    /\ [][FatalLeavesTopCall]_vars

\* the fetch for B, one level down, failed while its sibling C was still
\* to come: C was never expanded
C11_Witness ==
    /\ error \in FatalErrors
    /\ {1, 2} \subseteq ledger
    /\ pages["A"] >= 1
    /\ "B" \in traced /\ pages["B"] = 0
    /\ "C" \notin traced /\ fetched["C"] = 0

\* a top-level call of trace_transactions is about to test its guard
TopLevelEntry == Len(stack) = 1 /\ stack[1].phase = "entry"

\* C12, as stated: every top-level call starts with an empty traced set,
\* and a repeated trace of the same origin over the same ledger returns
\* the list the trace before it returned
C12_AsStated ==
    /\ TopLevelEntry => traced = {}
    /\ (outcome = "returned" /\ earlier # << >>) =>
            result = earlier[Len(earlier)]

\* a record with no destination key, an empty destination or no amount key
Malformed(t) == ~t.hasDest \/ t.to = "" \/ ~t.hasAmount

\* C13, as stated: a malformed record raises no error and is in no
\* accumulated list, neither of a frame nor of the finished trace
C13_AsStated ==
    /\ error # "KeyError"
    /\ \A i \in 1..Len(stack) :
           \A j \in 1..Len(stack[i].all) : ~Malformed(stack[i].all[j])
    /\ \A j \in 1..Len(result) : ~Malformed(result[j])

----------------------------------------------------------------------------
(* Levels *)

\* C14: the origin keeps level 0 in every state of the trace and after it,
\* whatever records lead back to it
C14_OriginLevel ==
    /\ initial_account \in DOMAIN node_levels
    /\ node_levels[initial_account] = 0

\* the trace is over, the ledger held a self-transfer of the origin and a
\* transfer back to it from B, and B was expanded
C14_Witness ==
    /\ outcome = "returned"
    /\ {1, 5, 10} \subseteq ledger
    /\ "B" \in traced /\ pages["B"] >= 1
    /\ G.built

\* the account a step expands has, at that moment, the depth of its frame
\* as its level, and the depth is within 0..max_depth
ExpandedAtLevel ==
    \A a \in traced' \ traced :
        /\ a = Top.account
        /\ Top.depth \in 0..max_depth
        /\ a \in DOMAIN node_levels
        /\ node_levels[a] = Top.depth

\* no step changes the level of an expanded account
TracedLevelKept ==
    \A a \in traced : a \in DOMAIN node_levels' /\ node_levels'[a] = node_levels[a]

\* C18: every account in traced has a level, the depth at which it was
\* expanded, between 0 and max_depth, and no later step overwrites it
C18_TracedLevel ==
    /\ [](\A a \in traced :
            a \in DOMAIN node_levels /\ node_levels[a] \in 0..max_depth)
    /\ [](\A i \in 1..Len(stack) :
            stack[i].phase # "entry" =>
                node_levels[stack[i].account] = stack[i].depth)
    /\ [][ExpandedAtLevel]_vars
    /\ [][TracedLevelKept]_vars

\* B was expanded one level down and levelled D below max_depth without
\* expanding it; a later record of the origin levelled D again and
\* expanded it one level down
C18_Witness ==
    /\ outcome = "returned"
    /\ {1, 3, 4} \subseteq ledger
    /\ "B" \in traced /\ node_levels["B"] = 1
    /\ "D" \in traced /\ node_levels["D"] = 1

----------------------------------------------------------------------------
(* Pagination of the XRP adapter *)

\* pages a full walk of the account's history takes: markers are followed
\* until an answer has none
FullWalk(a) ==
    LET n == Len(History(ledger, a))
    IN  IF n = 0 THEN 1 ELSE (n + PageSize - 1) \div PageSize

\* successful page fetches the account gets when expanded at depth d
PagesAt(a, d) == IF d = max_depth THEN 1 ELSE FullWalk(a)

\* C15 (xrp): an account expanded at depth = max_depth is fetched exactly
\* once, marker or not; one expanded above max_depth is fetched page after
\* page, each request carrying the marker of the answer before it, until
\* an answer has no marker
C15_DepthGatedPagination ==
    adapter = "xrp" =>
        /\ \A i \in 1..Len(stack) :
              LET f == stack[i]
              IN  /\ f.phase = "loop" => pages[f.account] = PagesAt(f.account, f.depth)
                  /\ f.phase = "fetch" =>
                        /\ f.page = pages[f.account] * PageSize
                        /\ pages[f.account] < PagesAt(f.account, f.depth)
        /\ outcome = "returned" =>
              \A a \in traced : pages[a] = PagesAt(a, node_levels[a])

\* the origin was expanded at depth = max_depth, its first answer carried
\* a marker, and the trace ended after that one page
C15_Witness ==
    /\ adapter = "xrp"
    /\ max_depth = 0
    /\ Len(History(ledger, initial_account)) > PageSize
    /\ outcome = "returned"
    /\ pages[initial_account] = 1

----------------------------------------------------------------------------
(* build_graph and the level map *)

\* the step is the call of build_graph
BuildStep == ~G.built /\ G'.built

\* what the call does to node_levels and to the node attributes
BuildGraphEffect ==
    BuildStep =>
        /\ \A a \in DOMAIN node_levels :
              a \in DOMAIN node_levels' /\ node_levels'[a] = node_levels[a]
        /\ \A a \in DOMAIN node_levels' \ DOMAIN node_levels :
              /\ node_levels'[a] = 0
              /\ \E j \in 1..Len(result) :
                    result[j].from = a /\ MakesEdge(result[j])
        /\ ~G'.raised =>
              \A n \in G'.nodes :
                  /\ n \in DOMAIN node_levels'
                  /\ n \in DOMAIN G'.subset_key
                  /\ G'.subset_key[n] = node_levels'[n]

\* C16: build_graph leaves every entry of the level map it is given as it
\* is, adds only level 0 for sources of its records that had no entry,
\* and on return every node's attribute equals the node's level in the map
C16_BuildGraphFrame == [][BuildGraphEffect]_vars

\* a graph was built without error and a source other than the origin got
\* the default level
C16_Witness ==
    /\ G.built /\ ~G.raised
    /\ \E n \in G.nodes \ {initial_account} :
          node_levels[n] = 0 /\ G.subset_key[n] = 0
    /\ Cardinality(G.nodes) >= 2

----------------------------------------------------------------------------
(* Placement *)

----------------------------------------------------------------------------
(* The accumulated list and the graph made of it *)

\* C19: the destination of every accumulated record has a level between
\* 1 and max_depth + 1, and build_graph on the returned list and the
\* level map of the trace meets no destination without a level
C19_DestinationsLevelled ==
    /\ \A t \in Accumulated :
          /\ t.to \in DOMAIN node_levels
          /\ node_levels[t.to] \in 1..(max_depth + 1)
    /\ G.built => ~G.raised

\* the graph was built from a list holding a record to D, which sits one
\* level below max_depth and was never expanded
C19_Witness ==
    /\ G.built /\ ~G.raised
    /\ max_depth = 1
    /\ {1, 3} \subseteq ledger
    /\ \E j \in 1..Len(result) : result[j].hash = 3
    /\ node_levels["D"] = max_depth + 1
    /\ "D" \notin traced

\* the filter of the running adapter's fetch_all_transactions
Kept(t) == IF adapter = "eth" THEN EthKeep(t) ELSE XrpKeep(t)

\* records of src to dst the trace can accept, in the order of the history
AcceptedOf(src, dst) ==
    SelectSeq(History(ledger, src),
              LAMBDA t : t.to = dst /\ Kept(t) /\ FollowTraced(t))

\* no list holds two records of one (source, destination) pair unless the
\* source was expanded at depth = max_depth
NoDuplicatePair(lst) ==
    \A i, j \in 1..Len(lst) :
        (i < j /\ lst[i].from = lst[j].from /\ lst[i].to = lst[j].to) =>
            node_levels[lst[i].from] = max_depth

\* C20: two records of the same (source, destination) pair are both
\* accumulated only if the source was expanded at depth = max_depth; an
\* edge whose source was expanded above max_depth weighs the amount of the
\* first accepted record of the pair
C20_FirstAccepted ==
    /\ NoDuplicatePair(result)
    /\ \A k \in 1..Len(stack) : NoDuplicatePair(stack[k].all)
    /\ (G.built /\ ~G.raised) =>
          \A e \in DOMAIN G.weight :
              node_levels[e[1]] < max_depth =>
                  /\ AcceptedOf(e[1], e[2]) # << >>
                  /\ G.weight[e] = Weight(AcceptedOf(e[1], e[2])[1])

\* the origin, expanded above max_depth, sent twice to B: only the first
\* record, of 5 units, was accumulated and is the weight of the edge
C20_Witness ==
    /\ max_depth = 1
    /\ {1, 6} \subseteq ledger
    /\ G.built /\ ~G.raised
    /\ \E j \in 1..Len(result) : result[j].hash = 1
    /\ \A j \in 1..Len(result) : result[j].hash # 6
    /\ G.weight[<<"A", "B">>].units = 5

====
